---- MODULE Spec2Model ----
(***************************************************************************)
(* mac-address-utils (src/src/index.js): the validator, the converters     *)
(* between the string, array and Buffer forms of a MAC address, the        *)
(* canonical formatter, the reversal and the equality check.               *)
(*                                                                         *)
(* A JavaScript string is a sequence of one-character strings, a Buffer a  *)
(* sequence of bytes (index 0 of the Buffer is element 1 of the sequence). *)
(* Every exported function is an operator computed the way the code        *)
(* computes it; every action is one call by a client of the module.        *)
(***************************************************************************)
EXTENDS Integers, Sequences, FiniteSets, TLC

VARIABLES calls, buffer

vars == <<calls, buffer>>

(***************************************************************************)
(* Bounds of the model.                                                    *)
(***************************************************************************)
MaxGroups == 7
MaxBufLen == 7
MaxArgs == 3
MaxParts == 3

(***************************************************************************)
(* JavaScript values.                                                      *)
(***************************************************************************)
\* const bufferLength = 6
bufferLength == 6

\* The largest value of a signed 32-bit integer, the range of ~~x.
Int32Max == 2147483647

\* An optional argument: passed with a value, or left out (undefined).
Undefined == [passed |-> FALSE, value |-> <<>>]
Passed(v) == [passed |-> TRUE, value |-> v]

\* A number n = q * 2^31 + r with 0 <= r < 2^31 is kept as the pair (q, r):
\* 2^31 and 2^32 do not fit the model checker's integers.
Num(q, r) == [q |-> q, r |-> r]

\* ~~x: ToInt32 of x. undefined becomes 0; a number is taken modulo 2^32 into
\* -2^31 .. 2^31 - 1.
ToInt32(x) ==
  IF ~x.passed THEN 0
  ELSE IF x.value.q % 2 = 0 THEN x.value.r
       ELSE (x.value.r - Int32Max) - 1

\* What a function call produces: a returned value or a thrown Error.
Return(v) == [kind |-> "return", value |-> v]
Throw(e) == [kind |-> "throw", error |-> e]

(***************************************************************************)
(* Strings.                                                                *)
(***************************************************************************)
LowerLetters == <<"a", "b", "c", "d", "e", "f", "x">>
UpperLetters == <<"A", "B", "C", "D", "E", "F", "X">>

\* String.prototype.toUpperCase, one character.
UpperChar(c) ==
  IF \E i \in 1..Len(LowerLetters) : LowerLetters[i] = c
  THEN UpperLetters[CHOOSE i \in 1..Len(LowerLetters) : LowerLetters[i] = c]
  ELSE c

\* String.prototype.toUpperCase.
toUpperCase(s) == [i \in 1..Len(s) |-> UpperChar(s[i])]

\* The character class [:-].
IsSeparator(c) == c \in {":", "-"}

\* The character class [0-9A-Fa-f].
IsHexChar(c) ==
  c \in {"0", "1", "2", "3", "4", "5", "6", "7", "8", "9",
         "a", "b", "c", "d", "e", "f", "A", "B", "C", "D", "E", "F"}

\* String.prototype.split(/[:-]/): the pieces between the separators, from
\* position i on, cur being the piece read so far.
RECURSIVE SplitFrom(_, _, _)
SplitFrom(s, i, cur) ==
  IF i > Len(s) THEN <<cur>>
  ELSE IF IsSeparator(s[i]) THEN <<cur>> \o SplitFrom(s, i + 1, <<>>)
       ELSE SplitFrom(s, i + 1, Append(cur, s[i]))

split(s) == SplitFrom(s, 1, <<>>)

\* String.prototype.replace(/[:-]/g, '').
RECURSIVE stripSeparators(_)
stripSeparators(s) ==
  IF s = <<>> THEN <<>>
  ELSE IF IsSeparator(Head(s)) THEN stripSeparators(Tail(s))
       ELSE <<Head(s)>> \o stripSeparators(Tail(s))

\* Array.prototype.join(sep).
RECURSIVE join(_, _)
join(array, sep) ==
  IF array = <<>> THEN <<>>
  ELSE IF Len(array) = 1 THEN array[1]
       ELSE array[1] \o sep \o join(Tail(array), sep)

\* Array.prototype.reverse.
reverse(array) == [i \in 1..Len(array) |-> array[Len(array) + 1 - i]]

(***************************************************************************)
(* constructMacAddress(array, separator)                                   *)
(***************************************************************************)
\* separator || ':' : undefined and the empty string are falsy.
constructMacAddress(array, separator) ==
  LET sep == IF separator.passed /\ separator.value # <<>>
             THEN separator.value ELSE <<":">>
      joinedString == join(array, sep)
  IN toUpperCase(joinedString)

(***************************************************************************)
(* isMacAddress(macAddress)                                                *)
(*   /^[0-9A-Fa-f]{2}([:-])(?:[0-9A-Fa-f]{2}\1){4}[0-9A-Fa-f]{2}$/         *)
(***************************************************************************)
\* [0-9A-Fa-f]{2} at position i: the position after it, 0 when it fails.
MatchHex2(s, i) ==
  IF i >= 1 /\ i + 1 <= Len(s) /\ IsHexChar(s[i]) /\ IsHexChar(s[i + 1])
  THEN i + 2 ELSE 0

\* (?:[0-9A-Fa-f]{2}\1){n} at position i, \1 being the captured separator.
RECURSIVE MatchRepeat(_, _, _, _)
MatchRepeat(s, i, captured, n) ==
  IF n = 0 THEN i
  ELSE LET j == MatchHex2(s, i)
       IN IF j # 0 /\ j <= Len(s) /\ s[j] = captured
          THEN MatchRepeat(s, j + 1, captured, n - 1)
          ELSE 0

\* The expression without the back-reference: any of ':' and '-' between any
\* two groups.
isMacAddress_anySeparator(macAddress) ==
  /\ Len(macAddress) = 17
  /\ \A i \in 1..17 :
       IF i % 3 = 0 THEN IsSeparator(macAddress[i]) ELSE IsHexChar(macAddress[i])

isMacAddress(macAddress) ==
  LET p1 == MatchHex2(macAddress, 1)
  IN /\ p1 # 0
     /\ p1 <= Len(macAddress)
     /\ IsSeparator(macAddress[p1])
     /\ LET p2 == MatchRepeat(macAddress, p1 + 1, macAddress[p1], 4)
            p3 == IF p2 = 0 THEN 0 ELSE MatchHex2(macAddress, p2)
        IN p3 = Len(macAddress) + 1

(***************************************************************************)
(* reverseMacAddress(macAddress), toArray(macAddress)                      *)
(***************************************************************************)
\* The reversal without the call of reverse().
reverseMacAddress_notReversed(macAddress) ==
  IF ~isMacAddress(macAddress) THEN Throw("Not a valid mac address.")
  ELSE Return(constructMacAddress(split(toUpperCase(macAddress)), Undefined))

reverseMacAddress(macAddress) ==
  IF ~isMacAddress(macAddress) THEN Throw("Not a valid mac address.")
  ELSE LET upperCaseMac == toUpperCase(macAddress)
           macArray == split(upperCaseMac)
       IN Return(constructMacAddress(reverse(macArray), Undefined))

toArray(macAddress) ==
  LET upperCaseMac == toUpperCase(macAddress)
  IN split(upperCaseMac)

(***************************************************************************)
(* Buffers.                                                                *)
(***************************************************************************)
HexDigits ==
  <<"0", "1", "2", "3", "4", "5", "6", "7", "8", "9", "a", "b", "c", "d", "e", "f">>

\* Number.prototype.toString(16) of a non-negative integer.
RECURSIVE numberToString16(_)
numberToString16(n) ==
  IF n < 16 THEN <<HexDigits[n + 1]>>
  ELSE numberToString16(n \div 16) \o <<HexDigits[(n % 16) + 1]>>

\* The value of one hexadecimal digit, as the 'hex' encoding decodes it.
HexValue(c) == CHOOSE d \in 0..15 : UpperChar(HexDigits[d + 1]) = UpperChar(c)

\* Buffer.alloc(size, '00', 'hex'): size zero bytes.
BufferAlloc(size) == [i \in 1..size |-> 0]

\* validateBufferLength(buf, offset): true when it throws, that is when
\* buf.length < offset + bufferLength (written without the sum, which for an
\* offset near 2^31 does not fit the model checker's integers).
validateBufferLength(buf, offset) == Len(buf) - bufferLength < offset

BufferTooSmall == "Buffer is not large enough to store a 6-byte MAC address"
RangeError == "RangeError"

\* buf.readUInt8(offset): the byte, or a RangeError outside the buffer.
readUInt8(buf, offset) ==
  IF offset < 0 \/ offset > Len(buf) - 1 THEN Throw(RangeError)
  ELSE Return(buf[offset + 1])

\* buf.write(string, offset, length, 'hex'): the buffer after the write, or a
\* RangeError for an offset outside it. At most length bytes, and no more
\* than fit or than the string holds, are written.
BufferWriteHex(buf, string, offset, length) ==
  IF offset < 0 \/ offset > Len(buf) THEN Throw(RangeError)
  ELSE LET remaining == Len(buf) - offset
           fits == IF length > remaining THEN remaining ELSE length
           n == IF fits > Len(string) \div 2 THEN Len(string) \div 2 ELSE fits
       IN Return([i \in 1..Len(buf) |->
                    IF i > offset /\ i <= offset + n
                    THEN 16 * HexValue(string[2 * (i - offset) - 1])
                         + HexValue(string[2 * (i - offset)])
                    ELSE buf[i]])

(***************************************************************************)
(* toBuffer(mac, buf, offset)                                              *)
(*   The result names the Buffer object returned ("buf", the caller's, or  *)
(*   "fresh", the one allocated by the call), holds the bytes of the       *)
(*   returned Buffer, and holds the caller's Buffer after the call.        *)
(***************************************************************************)
BufferResult(r, ref, bytes, callers) ==
  [kind |-> r.kind, value |-> [ref |-> ref, bytes |-> bytes],
   error |-> IF r.kind = "throw" THEN r.error ELSE "", buf |-> callers]

\* toBuffer leaving the Buffer it allocated unwritten.
toBuffer_freshUnwritten(mac, buf, offset) ==
  IF ~isMacAddress(mac)
  THEN BufferResult(Throw("Not a valid mac address."), "none", <<>>, buf.value)
  ELSE LET tempBuffer == IF buf.passed THEN buf.value ELSE BufferAlloc(bufferLength)
       IN IF validateBufferLength(tempBuffer, ToInt32(offset))
          THEN BufferResult(Throw(BufferTooSmall), "none", <<>>, buf.value)
          ELSE BufferResult(Return(0), IF buf.passed THEN "buf" ELSE "fresh",
                            tempBuffer, buf.value)

\* toBuffer writing into the caller's Buffer, and doing so before it
\* validates the length.
toBuffer_writeBeforeValidate(mac, buf, offset) ==
  IF ~isMacAddress(mac)
  THEN BufferResult(Throw("Not a valid mac address."), "none", <<>>, buf.value)
  ELSE LET tempBuffer == IF buf.passed THEN buf.value ELSE BufferAlloc(bufferLength)
           w == BufferWriteHex(tempBuffer, stripSeparators(mac), ToInt32(offset),
                               bufferLength)
           written == IF w.kind = "throw" THEN tempBuffer ELSE w.value
       IN IF validateBufferLength(tempBuffer, ToInt32(offset))
          THEN BufferResult(Throw(BufferTooSmall), "none", <<>>,
                            IF buf.passed THEN written ELSE buf.value)
          ELSE BufferResult(Return(0), IF buf.passed THEN "buf" ELSE "fresh",
                            written, IF buf.passed THEN written ELSE buf.value)

toBuffer(mac, buf, offset) ==
  IF ~isMacAddress(mac)
  THEN BufferResult(Throw("Not a valid mac address."), "none", <<>>, buf.value)
  ELSE LET convertedMac == stripSeparators(mac)
           bitwiseOffset == ToInt32(offset)
           isBuffer == buf.passed
           tempBuffer == IF isBuffer THEN buf.value ELSE BufferAlloc(bufferLength)
       IN IF validateBufferLength(tempBuffer, bitwiseOffset)
          THEN BufferResult(Throw(BufferTooSmall), "none", <<>>, buf.value)
          ELSE IF ~isBuffer
               THEN LET w == BufferWriteHex(tempBuffer, convertedMac,
                                            bitwiseOffset, bufferLength)
                    IN IF w.kind = "throw"
                       THEN BufferResult(w, "none", <<>>, buf.value)
                       ELSE BufferResult(w, "fresh", w.value, buf.value)
               ELSE BufferResult(Return(0), "buf", tempBuffer, tempBuffer)

(***************************************************************************)
(* toString(buf, offset, separator)                                        *)
(***************************************************************************)
\* The loop body for i, i + 1, ..., bufferLength - 1, values being the array
\* built so far.
RECURSIVE toStringLoop(_, _, _, _, _)
toStringLoop(buf, bitwiseOffset, separator, i, values) ==
  IF i >= bufferLength THEN Return(constructMacAddress(values, separator))
  ELSE LET tempByte == readUInt8(buf, bitwiseOffset + i)
       IN IF tempByte.kind = "throw" THEN tempByte
          ELSE LET digits == numberToString16(tempByte.value)
                   tempString == IF Len(digits) < 2 THEN <<"0">> \o digits
                                 ELSE digits
               IN toStringLoop(buf, bitwiseOffset, separator, i + 1,
                               values \o <<tempString>>)

toString(buf, offset, separator) ==
  LET bitwiseOffset == ToInt32(offset)
  IN IF validateBufferLength(buf, bitwiseOffset) THEN Throw(BufferTooSmall)
     ELSE toStringLoop(buf, bitwiseOffset, separator, 0, <<>>)

(***************************************************************************)
(* areEqual(...macAddresses)                                               *)
(***************************************************************************)
containsAll(arr1, arr2) ==
  \A j \in 1..Len(arr2) : \E i \in 1..Len(arr1) : arr1[i] = arr2[j]

\* The comparison in one direction only.
sameElements_oneWay(arr1, arr2) == containsAll(arr1, arr2)

sameElements(arr1, arr2) == containsAll(arr1, arr2) /\ containsAll(arr2, arr1)

\* areEqual validating its first argument only.
areEqual_firstValidated(macAddresses) ==
  IF macAddresses # <<>> /\ ~isMacAddress(macAddresses[1])
  THEN Throw(<<macAddresses[1], "at index", 0, "is not a valid Mac address.">>)
  ELSE Return(\A i \in 1..Len(macAddresses) :
                sameElements(toArray(macAddresses[1]), toArray(macAddresses[i])))

areEqual(macAddresses) ==
  IF \E i \in 1..Len(macAddresses) : ~isMacAddress(macAddresses[i])
  THEN LET first == CHOOSE i \in 1..Len(macAddresses) :
                      /\ ~isMacAddress(macAddresses[i])
                      /\ \A j \in 1..(i - 1) : isMacAddress(macAddresses[j])
       IN Throw(<<macAddresses[first], "at index", first - 1,
                  "is not a valid Mac address.">>)
  ELSE LET convertedAddresses ==
             [i \in 1..Len(macAddresses) |-> toArray(macAddresses[i])]
       IN Return(\A i \in 1..Len(convertedAddresses) :
                   sameElements(convertedAddresses[1], convertedAddresses[i]))

(***************************************************************************)
(* The inputs of the calls.                                                *)
(***************************************************************************)
\* Six well-formed groups, all different, and two more to go on with.
DistinctGroups ==
  <<<<"0", "1">>, <<"2", "3">>, <<"4", "5">>, <<"6", "7">>, <<"8", "9">>,
    <<"a", "B">>, <<"c", "D">>, <<"E", "f">>, <<"1", "0">>>>

\* Groups that are not two hexadecimal digits.
OddGroups ==
  {<<"x", "0">>, <<"f">>, <<"0", "a", "f">>, <<"0", "a", "F", "f">>, <<>>}

\* n groups: all different (k = 0), or "0a" and "Ff" in turn (k = 1, 2).
BaseGroups(n, k) ==
  [i \in 1..n |->
     IF k = 0 THEN DistinctGroups[((i - 1) % Len(DistinctGroups)) + 1]
     ELSE IF (i + k) % 2 = 0 THEN <<"0", "a">> ELSE <<"F", "f">>]

\* The groups with the separator seps[i] written after group i.
RECURSIVE JoinGroups(_, _)
JoinGroups(groups, seps) ==
  IF groups = <<>> THEN <<>>
  ELSE IF Len(groups) = 1 THEN groups[1]
       ELSE groups[1] \o <<seps[1]>> \o JoinGroups(Tail(groups), Tail(seps))

\* The group lists of length n: a base list, or one with one odd group.
GroupLists(n) ==
  UNION {{BaseGroups(n, k)}
         \cup {[BaseGroups(n, k) EXCEPT ![i] = g] : i \in 1..n, g \in OddGroups}
         : k \in 0..2}

\* Candidate strings: up to MaxGroups groups, each separator ':' or '-'.
MacInputs ==
  UNION {{JoinGroups(g, s) : g \in GroupLists(n),
                             s \in [1..(n - 1) -> {":", "-"}]}
         : n \in 1..MaxGroups} \cup {<<>>}

\* The well-formed strings of the base lists, one separator throughout.
BaseMac(k, sep) == JoinGroups(BaseGroups(6, k), [i \in 1..5 |-> sep])

\* A smaller set of strings for the calls that take other arguments too.
FewMacs ==
  {BaseMac(k, sep) : k \in 0..2, sep \in {":", "-"}}
  \cup {JoinGroups([BaseGroups(6, 0) EXCEPT ![3] = g], [i \in 1..5 |-> ":"])
        : g \in OddGroups}
  \cup {JoinGroups(BaseGroups(6, 1), <<":", ":", "-", ":", ":">>),
        JoinGroups(BaseGroups(5, 0), [i \in 1..4 |-> ":"]),
        JoinGroups(BaseGroups(7, 0), [i \in 1..6 |-> "-"])}

\* The groups of BaseMac(1, sep) with "0A" five times and "fF" once.
RepeatedMac ==
  JoinGroups([i \in 1..6 |-> IF i = 6 THEN <<"f", "F">> ELSE <<"0", "A">>],
             [i \in 1..5 |-> ":"])

\* The strings areEqual is called with: equal and unequal group sets, the
\* same groups in another order or another number of times, and invalid ones.
EqualMacs ==
  {BaseMac(k, sep) : k \in 0..2, sep \in {":", "-"}}
  \cup {toUpperCase(JoinGroups(reverse(BaseGroups(6, 0)), [i \in 1..5 |-> "-"])),
        RepeatedMac,
        JoinGroups([i \in 1..6 |-> <<"0", "a">>], [i \in 1..5 |-> ":"]),
        JoinGroups([BaseGroups(6, 0) EXCEPT ![6] = <<"x", "0">>],
                   [i \in 1..5 |-> ":"]),
        <<>>}

\* All sequences over S of length 0 .. n.
SeqUpTo(S, n) == UNION {[1..m -> S] : m \in 0..n}

\* Buffers: every content of up to MaxBufLen bytes over two byte values, and
\* some buffers of other bytes.
Buffers ==
  SeqUpTo({10, 175}, MaxBufLen)
  \cup {<<170, 187, 204, 221, 238, 255>>, <<0, 0, 0, 0, 0, 0>>,
        <<0, 1, 15, 16, 128, 255>>, <<9, 0, 1, 15, 16, 128, 255, 7>>}

\* Offsets: left out, small ones, and 2^31, 2^32, 2^32 + 1.
Offsets ==
  {Undefined}
  \cup {Passed(Num(0, r)) : r \in 0..(MaxBufLen - bufferLength + 1)}
  \cup {Passed(Num(1, 0)), Passed(Num(2, 0)), Passed(Num(2, 1))}

\* Separators: left out, empty, the usual two, a lowercase letter, two
\* characters.
Separators ==
  {Undefined, Passed(<<>>), Passed(<<":">>), Passed(<<"-">>), Passed(<<"x">>),
   Passed(<<"a", "-">>)}

\* The arrays constructMacAddress is called with.
Parts == {<<"0", "a">>, <<"F", "f">>, <<>>, <<"x">>}

(***************************************************************************)
(* The client: one call per step. calls holds the calls made so far, the   *)
(* last one last; buffer is the client's Buffer object after them.         *)
(***************************************************************************)
Call(o, a, r) == [op |-> o, args |-> a, result |-> r]

Init ==
  /\ calls = <<>>
  /\ buffer = <<>>

CallConstructMacAddress ==
  /\ calls = <<>>
  /\ \E array \in SeqUpTo(Parts, MaxParts), separator \in Separators :
       calls' = <<Call("constructMacAddress",
                       [array |-> array, separator |-> separator],
                       Return(constructMacAddress(array, separator)))>>
  /\ UNCHANGED buffer

CallIsMacAddress ==
  /\ calls = <<>>
  /\ \E macAddress \in MacInputs :
       calls' = <<Call("isMacAddress", [macAddress |-> macAddress],
                       Return(isMacAddress(macAddress)))>>
  /\ UNCHANGED buffer

CallToArray ==
  /\ calls = <<>>
  /\ \E macAddress \in FewMacs :
       calls' = <<Call("toArray", [macAddress |-> macAddress],
                       Return(toArray(macAddress)))>>
  /\ UNCHANGED buffer

CallReverseMacAddress ==
  /\ calls = <<>>
  /\ \E macAddress \in MacInputs :
       calls' = <<Call("reverseMacAddress", [macAddress |-> macAddress],
                       reverseMacAddress(macAddress))>>
  /\ UNCHANGED buffer

\* reverseMacAddress of the string the last call, a reverseMacAddress,
\* returned.
CallReverseAgain ==
  /\ Len(calls) = 1
  /\ calls[1].op = "reverseMacAddress"
  /\ calls[1].result.kind = "return"
  /\ calls' = Append(calls,
                     Call("reverseMacAddress",
                          [macAddress |-> calls[1].result.value],
                          reverseMacAddress(calls[1].result.value)))
  /\ UNCHANGED buffer

\* areEqual of the twice reversed string and the string it came from.
CallAreEqualReversed ==
  /\ Len(calls) = 2
  /\ calls[2].op = "reverseMacAddress"
  /\ calls[2].result.kind = "return"
  /\ LET macAddresses == <<calls[2].result.value, calls[1].args.macAddress>>
     IN calls' = Append(calls,
                        Call("areEqual", [macAddresses |-> macAddresses],
                             areEqual(macAddresses)))
  /\ UNCHANGED buffer

CallAreEqual ==
  /\ calls = <<>>
  /\ \E macAddresses \in SeqUpTo(EqualMacs, MaxArgs) :
       calls' = <<Call("areEqual", [macAddresses |-> macAddresses],
                       areEqual(macAddresses))>>
  /\ UNCHANGED buffer

CallToBuffer ==
  /\ calls = <<>>
  /\ \E mac \in FewMacs, offset \in Offsets,
        buf \in {Undefined} \cup {Passed(b) : b \in Buffers} :
       LET r == toBuffer(mac, buf, offset)
       IN /\ calls' = <<Call("toBuffer",
                             [mac |-> mac, buf |-> buf, offset |-> offset], r)>>
          /\ buffer' = r.buf

CallToString ==
  /\ calls = <<>>
  /\ \E buf \in Buffers, offset \in Offsets, separator \in Separators :
       /\ calls' = <<Call("toString",
                          [buf |-> buf, offset |-> offset,
                           separator |-> separator],
                          toString(buf, offset, separator))>>
       /\ buffer' = buf

\* toBuffer, with no target, of the string the last call, a toString,
\* returned.
CallToBufferOfString ==
  /\ Len(calls) = 1
  /\ calls[1].op = "toString"
  /\ calls[1].result.kind = "return"
  /\ LET mac == calls[1].result.value
         r == toBuffer(mac, Undefined, Undefined)
     IN calls' = Append(calls,
                        Call("toBuffer",
                             [mac |-> mac, buf |-> Undefined,
                              offset |-> Undefined], r))
  /\ UNCHANGED buffer

Next ==
  \/ CallConstructMacAddress
  \/ CallIsMacAddress
  \/ CallToArray
  \/ CallReverseMacAddress
  \/ CallReverseAgain
  \/ CallAreEqualReversed
  \/ CallAreEqual
  \/ CallToBuffer
  \/ CallToString
  \/ CallToBufferOfString

Spec == Init /\ [][Next]_vars

\* The last call made.
Last == calls[Len(calls)]

(***************************************************************************)
(* What the properties are stated with.                                    *)
(***************************************************************************)
Called(o) == Len(calls) > 0 /\ Last.op = o

\* The pieces of s between the occurrences of the one character sep.
RECURSIVE PiecesBetween(_, _)
PiecesBetween(s, sep) ==
  IF \A i \in 1..Len(s) : s[i] # sep THEN <<s>>
  ELSE LET i == CHOOSE i \in 1..Len(s) :
                  s[i] = sep /\ \A j \in 1..(i - 1) : s[j] # sep
       IN <<SubSeq(s, 1, i - 1)>> \o PiecesBetween(SubSeq(s, i + 1, Len(s)), sep)

UpperHexDigits ==
  <<"0", "1", "2", "3", "4", "5", "6", "7", "8", "9", "A", "B", "C", "D", "E", "F">>
LowerHexDigits ==
  <<"0", "1", "2", "3", "4", "5", "6", "7", "8", "9", "a", "b", "c", "d", "e", "f">>

HexadecimalChar(c) ==
  \E d \in 1..16 : c = UpperHexDigits[d] \/ c = LowerHexDigits[d]

\* Six groups of two hexadecimal characters joined by five occurrences of
\* one separator.
SixGroups(s) ==
  \E sep \in {":", "-"} :
    LET g == PiecesBetween(s, sep)
    IN /\ Len(g) = 6
       /\ \A i \in 1..6 :
            Len(g[i]) = 2 /\ HexadecimalChar(g[i][1]) /\ HexadecimalChar(g[i][2])

\* The numeric value of a hexadecimal character.
DigitValue(c) ==
  CHOOSE d \in 0..15 : c = UpperHexDigits[d + 1] \/ c = LowerHexDigits[d + 1]

\* The numeric value of group i (0 .. 5) of a valid string.
GroupValue(mac, i) == 16 * DigitValue(mac[3 * i + 1]) + DigitValue(mac[3 * i + 2])

\* A byte as two uppercase hexadecimal digits.
ByteGroup(b) == <<UpperHexDigits[(b \div 16) + 1], UpperHexDigits[(b % 16) + 1]>>

\* The set of uppercased groups of a valid string.
GroupSetOf(mac) ==
  {<<UpperChar(mac[3 * k + 1]), UpperChar(mac[3 * k + 2])>> : k \in 0..5}

\* The canonical form of a valid string: uppercase, ':' between the groups.
CanonicalForm(mac) ==
  [p \in 1..17 |-> IF p % 3 = 0 THEN ":" ELSE UpperChar(mac[p])]

\* The canonical form with the groups in the opposite order: group i is
\* group 7 - i of mac.
ReversedForm(mac) ==
  [p \in 1..17 |->
     IF p % 3 = 0 THEN ":"
     ELSE UpperChar(mac[3 * (5 - ((p - 1) \div 3)) + ((p - 1) % 3) + 1])]

\* The offset passed, when it is below 2^31 (0 when it is left out).
SmallOffset(offset) == ~offset.passed \/ offset.value.q = 0
OffsetOf(offset) == IF offset.passed THEN offset.value.r ELSE 0

\* length < offset + 6 for the offset as the caller passed it.
TooSmallFor(length, offset) ==
  IF SmallOffset(offset) THEN length < OffsetOf(offset) + 6 ELSE TRUE

\* The separator passed, ':' when none is.
SeparatorOf(separator) == IF separator.passed THEN separator.value ELSE <<":">>

(***************************************************************************)
(* Properties.                                                             *)
(***************************************************************************)

\* C1: isMacAddress(s) is true if and only if s is exactly 6 groups of
\* exactly 2 hexadecimal characters joined by 5 occurrences of one and the
\* same separator, ':' or '-'; it is false for every other string.
C1_ValidatorGrammar ==
  Called("isMacAddress") =>
    Last.result = Return(SixGroups(Last.args.macAddress))

\* isMacAddress has accepted a string, and one that uses '-'.
C1_Witness ==
  /\ Called("isMacAddress")
  /\ Last.args.macAddress = BaseMac(0, "-")
  /\ Last.result = Return(TRUE)

\* C2: for a valid mac, a caller-supplied target and a non-negative offset
\* with target.length >= offset + 6, toBuffer returns that target, and
\* afterwards target[offset + i] is the value of group i of mac, i in 0..5.
C2_TargetWritten ==
  ( /\ Called("toBuffer")
    /\ Last.args.buf.passed
    /\ SmallOffset(Last.args.offset)
    /\ SixGroups(Last.args.mac)
    /\ Len(Last.args.buf.value) >= OffsetOf(Last.args.offset) + 6 )
  => /\ Last.result.kind = "return"
     /\ Last.result.value.ref = "buf"
     /\ \A i \in 0..5 :
          buffer[OffsetOf(Last.args.offset) + i + 1] = GroupValue(Last.args.mac, i)

\* C3: toBuffer(toString(b)), called without a target, returns a 6-byte
\* buffer equal to b for every 6-byte buffer b; toBuffer of a valid string
\* with no target returns the 6 bytes that are the values of its 6 groups,
\* left to right.
C3_RoundTrip ==
  /\ ( /\ Len(calls) = 2
       /\ Last.op = "toBuffer"
       /\ calls[1].op = "toString"
       /\ Len(calls[1].args.buf) = 6
       /\ ~calls[1].args.offset.passed
       /\ ~calls[1].args.separator.passed )
     => /\ Last.result.kind = "return"
        /\ Len(Last.result.value.bytes) = 6
        /\ Last.result.value.bytes = calls[1].args.buf
  /\ ( /\ Called("toBuffer")
       /\ ~Last.args.buf.passed
       /\ ~Last.args.offset.passed
       /\ SixGroups(Last.args.mac) )
     => /\ Last.result.kind = "return"
        /\ Last.result.value.bytes = [i \in 1..6 |-> GroupValue(Last.args.mac, i - 1)]

\* toBuffer(toString(b)) has returned b, a buffer of six different bytes.
C3_Witness ==
  /\ Len(calls) = 2
  /\ Last.op = "toBuffer"
  /\ calls[1].op = "toString"
  /\ calls[1].args.buf = <<0, 1, 15, 16, 128, 255>>
  /\ ~calls[1].args.offset.passed
  /\ ~calls[1].args.separator.passed
  /\ Last.result.value.bytes = <<0, 1, 15, 16, 128, 255>>

\* C4: for one or more valid strings, areEqual returns true if and only if
\* every argument's set of uppercased groups equals that of the first
\* argument: case, separator, order and repetition of groups are ignored,
\* and a single argument is always equal.
C4_SetEquality ==
  ( /\ Called("areEqual")
    /\ Len(Last.args.macAddresses) >= 1
    /\ \A i \in 1..Len(Last.args.macAddresses) :
         SixGroups(Last.args.macAddresses[i]) )
  => Last.result =
       Return(\A i \in 1..Len(Last.args.macAddresses) :
                GroupSetOf(Last.args.macAddresses[i])
                  = GroupSetOf(Last.args.macAddresses[1]))

\* areEqual has returned true for the same groups in another order, another
\* case, with another separator and another number of times.
C4_Witness ==
  /\ Called("areEqual")
  /\ Len(Last.args.macAddresses) = 3
  /\ Last.args.macAddresses[1] = BaseMac(1, ":")
  /\ Last.args.macAddresses[2] = BaseMac(2, "-")
  /\ Last.args.macAddresses[3] = RepeatedMac
  /\ Last.result = Return(TRUE)

\* C5: for a source and a non-negative offset with source.length >=
\* offset + 6, toString returns six groups joined by the separator (':'
\* when none is given), group i being source[offset + i] as two uppercase
\* hexadecimal digits; the source is not modified.
C5_ToStringFormat ==
  ( /\ Called("toString")
    /\ SmallOffset(Last.args.offset)
    /\ Len(Last.args.buf) >= OffsetOf(Last.args.offset) + 6 )
  => /\ Last.result =
          Return(join([i \in 1..6 |->
                         ByteGroup(Last.args.buf[OffsetOf(Last.args.offset) + i])],
                      SeparatorOf(Last.args.separator)))
     /\ buffer = Last.args.buf

\* C6: for a valid m, reverseMacAddress(m) is the uppercase ':'-separated
\* string whose group i is group 7 - i of m; reversing twice gives the
\* canonical form of m, and areEqual of that and m is true.
C6_Reversal ==
  /\ (Called("reverseMacAddress") /\ SixGroups(Last.args.macAddress))
     => Last.result = Return(ReversedForm(Last.args.macAddress))
  /\ (Len(calls) >= 2 /\ calls[1].op = "reverseMacAddress"
                      /\ calls[2].op = "reverseMacAddress")
     => calls[2].result = Return(CanonicalForm(calls[1].args.macAddress))
  /\ (Len(calls) = 3 /\ calls[1].op = "reverseMacAddress"
                     /\ calls[3].op = "areEqual")
     => calls[3].result = Return(TRUE)

\* A string in lowercase and uppercase with '-' has been reversed twice and
\* compared with the result.
C6_Witness ==
  /\ Len(calls) = 3
  /\ calls[1].op = "reverseMacAddress"
  /\ calls[1].args.macAddress = BaseMac(0, "-")
  /\ calls[2].op = "reverseMacAddress"
  /\ calls[2].result.value # calls[1].args.macAddress
  /\ calls[3].op = "areEqual"
  /\ calls[3].result = Return(TRUE)

\* C7: toBuffer and reverseMacAddress raise an error when their string
\* fails isMacAddress, and areEqual raises one when any of its arguments
\* does, at any position; none of them returns a value then.
C7_InvalidRaises ==
  /\ (Called("reverseMacAddress") /\ ~isMacAddress(Last.args.macAddress))
     => Last.result.kind = "throw"
  /\ (Called("toBuffer") /\ ~isMacAddress(Last.args.mac))
     => Last.result.kind = "throw" /\ Last.result.value.ref = "none"
  /\ (Called("areEqual") /\ \E i \in 1..Len(Last.args.macAddresses) :
                               ~isMacAddress(Last.args.macAddresses[i]))
     => Last.result.kind = "throw"

\* areEqual has raised for two valid, equal strings followed by an invalid
\* one.
C7_Witness ==
  /\ Called("areEqual")
  /\ Len(Last.args.macAddresses) = 3
  /\ Last.args.macAddresses[1] = BaseMac(0, ":")
  /\ Last.args.macAddresses[2] = BaseMac(0, "-")
  /\ ~isMacAddress(Last.args.macAddresses[3])
  /\ Last.result.kind = "throw"

\* C8: for every non-negative offset, toString raises the buffer-too-small
\* error exactly when source.length < offset + 6, and toBuffer with a valid
\* mac and a supplied target exactly when target.length < offset + 6.
C8_TooSmallExactly ==
  /\ (Called("toString") /\ Last.args.offset.passed)
     => ( (Last.result.kind = "throw" /\ Last.result.error = BufferTooSmall)
          <=> TooSmallFor(Len(Last.args.buf), Last.args.offset) )
  /\ ( /\ Called("toBuffer")
       /\ Last.args.offset.passed
       /\ Last.args.buf.passed
       /\ SixGroups(Last.args.mac) )
     => ( (Last.result.kind = "throw" /\ Last.result.error = BufferTooSmall)
          <=> TooSmallFor(Len(Last.args.buf.value), Last.args.offset) )

\* C9: a toBuffer call with a caller-supplied target that fails leaves
\* every byte of the target unchanged; one that succeeds leaves every byte
\* outside offset .. offset + 5 unchanged.
C9_TargetFrame ==
  (Called("toBuffer") /\ Last.args.buf.passed)
  => /\ Len(buffer) = Len(Last.args.buf.value)
     /\ Last.result.kind = "throw" => buffer = Last.args.buf.value
     /\ Last.result.kind = "return" =>
          \A i \in 1..Len(buffer) :
            ( \/ ~SmallOffset(Last.args.offset)
              \/ i - 1 < OffsetOf(Last.args.offset)
              \/ i - 1 > OffsetOf(Last.args.offset) + 5 )
            => buffer[i] = Last.args.buf.value[i]

\* toBuffer has returned for a target with bytes on both sides of the six
\* at the offset.
C9_Witness ==
  /\ Called("toBuffer")
  /\ Last.args.buf.passed
  /\ Len(Last.args.buf.value) = 8
  /\ Last.args.offset = Passed(Num(0, 1))
  /\ Last.result.kind = "return"
  /\ buffer[1] = 9 /\ buffer[8] = 7

\* C10: for every separator string the caller passes, the empty string and
\* lowercase letters included, constructMacAddress returns the groups joined
\* with that separator and uppercased as a whole; ':' is used only when no
\* separator is passed.
C10_SeparatorHonoured ==
  Called("constructMacAddress") =>
    Last.result =
      Return(toUpperCase(join(Last.args.array, SeparatorOf(Last.args.separator))))

====
